---- MODULE Spec2Model ----
(***************************************************************************)
(* Model of generate_graph.py: the start-up check of the input path, the   *)
(* per-cell aggregation loop, the per-column fitting loop, and the         *)
(* statistics functions (covariance, correlation_coefficient,              *)
(* coefficient_of_determination).                                          *)
(*                                                                         *)
(* Floating point numbers are modelled by exact rationals, kept as integer *)
(* numerator / denominator pairs, plus the IEEE results of a division by   *)
(* zero ("nan", "inf", "neginf") and the Python exception that a call      *)
(* raises.                                                                 *)
(***************************************************************************)
EXTENDS Integers, Sequences, FiniteSets, TLC

\* ---------------------------------------------------------------- bounds
MaxRows == 4
MaxGrid == 2
MaxLen == 3

\* Stand-in for a missing measurement (float NaN) in a table cell.
NaN == -1

\* ------------------------------------------------------- sequence helpers
Min(a, b) == IF a < b THEN a ELSE b

RECURSIVE Sum(_)
Sum(s) == IF s = <<>> THEN 0 ELSE Head(s) + Sum(Tail(s))

Dot(u, v) == Sum([k \in 1..Len(u) |-> u[k] * v[k]])

Ones(n) == [k \in 1..n |-> 1]

Sgn(n) == IF n > 0 THEN 1 ELSE IF n < 0 THEN -1 ELSE 0

IsErr(r) == r.kind \in {"TypeError", "ZeroDivisionError", "IndexError", "RuntimeError"}

Err(name) == [kind |-> name, num |-> 0, den |-> 0]

Num(n, d) == [kind |-> "num", num |-> n, den |-> d]

Special(name) == [kind |-> name, num |-> 0, den |-> 0]

\* Float division n / d of two finite numbers given by their signs.
FloatDivSpecial(n, d) ==
    IF n = 0 THEN Special("nan")
    ELSE IF Sgn(n) > 0 THEN Special("inf") ELSE Special("neginf")

\* ------------------------------------------------------------ statistics
\* weights argument: None, or an array.
None == [none |-> TRUE, arr |-> <<>>]

Arr(w) == [none |-> FALSE, arr |-> w]

\* np.average(a, weights=w): the shapes must agree and the weights must not
\* sum to zero; the result is Dot(w, a) / Sum(w).
np_average(a, w) ==
    IF Len(a) # Len(w) THEN Err("TypeError")
    ELSE IF Sum(w) = 0 THEN Err("ZeroDivisionError")
    ELSE Num(Dot(w, a), Sum(w))

\* The weight functions a caller may supply; "None" is no weight function.
WeightFuncs == {"None", "x", "y_minus_1", "x_minus_y"}

ApplyWeight(f, x, y) ==
    IF f = "x" THEN x
    ELSE IF f = "y_minus_1" THEN y - 1
    ELSE x - y

compute_weights(X, y, weight_func) ==
    IF weight_func = "None" THEN [kind |-> "ok", w |-> None]
    ELSE IF Len(y) < Len(X) THEN [kind |-> "IndexError", w |-> None]
    ELSE [kind |-> "ok",
          w |-> Arr([k \in 1..Len(X) |-> ApplyWeight(weight_func, X[k], y[k])])]

\* Sum_k w[k] * (W*a[k] - Dot(w,a)) * (W*b[k] - Dot(w,b)), which is W^3 times
\* the weighted covariance of a and b.
CovNum(a, b, w) ==
    LET W == Sum(w)
        sa == Dot(w, a)
        sb == Dot(w, b)
    IN  Sum([k \in 1..Len(w) |-> w[k] * (W * a[k] - sa) * (W * b[k] - sb)])

\* Variant of covariance that averages each sequence with weights of its own
\* length and pairs the entries up to the shorter length.
covariance_truncating(X, y, weights) ==
    LET n  == Min(Len(X), Len(y))
        Xs == SubSeq(X, 1, n)
        ys == SubSeq(y, 1, n)
        w  == Ones(n)
    IN  IF n = 0 THEN Err("ZeroDivisionError")
        ELSE Num(CovNum(Xs, ys, w), n * n * n)

covariance(X, y, weights) ==
    LET w  == IF weights.none THEN Ones(Len(X)) ELSE weights.arr
        ax == np_average(X, w)
        ay == np_average(y, w)
        W  == Sum(w)
    IN  IF IsErr(ax) THEN ax
        ELSE IF IsErr(ay) THEN ay
        ELSE Num(CovNum(X, y, w), W * W * W)

\* A correlation coefficient: the value is num / sqrt(den) when kind = "num".
Corr(n, r) == [kind |-> "num", num |-> n, den |-> r]

CorrSpecial(name) == [kind |-> name, num |-> 0, den |-> 0]

correlation_coefficient(X, y, weights) ==
    LET w   == IF weights.none THEN Ones(Len(X)) ELSE weights.arr
        cxy == covariance(X, y, Arr(w))
        cxx == covariance(X, X, Arr(w))
        cyy == covariance(y, y, Arr(w))
        rad == cxx.num * cyy.num
        W   == Sum(w)
    IN  IF IsErr(cxy) THEN CorrSpecial(cxy.kind)
        ELSE IF IsErr(cxx) THEN CorrSpecial(cxx.kind)
        ELSE IF IsErr(cyy) THEN CorrSpecial(cyy.kind)
        ELSE IF rad < 0 THEN CorrSpecial("nan")
        ELSE IF rad = 0 THEN CorrSpecial(FloatDivSpecial(cxy.num * Sgn(W), 1).kind)
        ELSE Corr(cxy.num * Sgn(W), rad)

\* Variant of coefficient_of_determination that returns rss / tss.
coefficient_of_determination_ratio(X, y, yreg, D, weight_func) ==
    LET cw   == compute_weights(X, y, weight_func)
        w    == IF weight_func # "None" THEN cw.w.arr ELSE Ones(Len(X))
        mean == np_average(y, w)
        W    == Sum(w)
        tss  == Sum([k \in 1..Len(w) |-> w[k] * (W * y[k] - mean.num) * (W * y[k] - mean.num)])
        rss  == Sum([k \in 1..Len(w) |-> w[k] * (yreg[k] - D * y[k]) * (yreg[k] - D * y[k])])
    IN  IF cw.kind # "ok" THEN Err(cw.kind)
        ELSE IF IsErr(mean) THEN mean
        ELSE IF tss = 0 THEN FloatDivSpecial(rss, 1)
        ELSE Num(rss * W * W, D * D * tss)

\* y_regression = trendline(X) is passed as the sequence yreg of numerators
\* over the common denominator D: trendline(X[k]) = yreg[k] / D.
coefficient_of_determination(X, y, yreg, D, weight_func) ==
    LET cw   == compute_weights(X, y, weight_func)
        w    == IF weight_func # "None" THEN cw.w.arr ELSE Ones(Len(X))
        mean == np_average(y, w)
        W    == Sum(w)
        tss  == Sum([k \in 1..Len(w) |-> w[k] * (W * y[k] - mean.num) * (W * y[k] - mean.num)])
        rss  == Sum([k \in 1..Len(w) |-> w[k] * (yreg[k] - D * y[k]) * (yreg[k] - D * y[k])])
    IN  IF cw.kind # "ok" THEN Err(cw.kind)
        ELSE IF IsErr(mean) THEN mean
        ELSE IF tss = 0 THEN FloatDivSpecial(-rss, 1)
        ELSE Num(D * D * tss - rss * W * W, D * D * tss)

\* ------------------------------------------------------- trendline fitting
\* np.polyfit(X, y, 1) followed by trendline(X): the least-squares line
\* evaluated at the sample points, as numerators yreg over the denominator D.
\* When all X are equal the system is rank deficient and the fitted values
\* are the projection of y on the constant vector, i.e. the mean of y.
polyfit_values(X, y) ==
    LET n   == Len(X)
        SX  == Sum(X)
        SY  == Sum(y)
        Sxx == n * Dot(X, X) - SX * SX
        Sxy == n * Dot(X, y) - SX * SY
    IN  IF Sxx = 0
        THEN [yreg |-> [k \in 1..n |-> SY], D |-> n]
        ELSE [yreg |-> [k \in 1..n |-> n * Sxy * X[k] + (Sxx * SY - Sxy * SX)],
              D |-> n * Sxx]

_generate_trendline_metrics(X, y, yreg, D, weight_func) ==
    LET cw == compute_weights(X, y, weight_func)
    IN  [p_value   |-> correlation_coefficient(X, y, cw.w),
         r_squared |-> coefficient_of_determination(X, y, yreg, D, weight_func)]

generate_polynomial_trendline(X, y) ==
    LET t == polyfit_values(X, y)
    IN  _generate_trendline_metrics(X, y, t.yreg, t.D, "None")

\* Number of parameters of the logarithmic model a * log(b * t) + c.
NumLogParams == 3

\* What scipy.optimize.curve_fit can do on n samples: with fewer samples than
\* parameters it raises TypeError; otherwise it converges or raises
\* RuntimeError.
CurveFitOutcomes(n) ==
    IF n < NumLogParams THEN {"TypeError"} ELSE {"converged", "RuntimeError"}

\* Residuals of a converged logarithmic fit: the fitted curve is off by the
\* same offset at every sample (0 is an exact fit).
LogOffsets == {0, 1}

generate_curve_fit(X, y, offset) ==
    _generate_trendline_metrics(X, y, [k \in 1..Len(y) |-> y[k] + offset], 1, "None")

\* ------------------------------------------------------------ input table
\* The longitudes and the latitudes of the table.
Coords == {0, 1}

\* The entries of the measurement columns: column a has missing entries,
\* column b is always filled in.
ValuesA == {NaN, 2}

ValuesB == {1}

RowTypes == [lon : Coords, lat : Coords, a : ValuesA, b : ValuesB]

RowCode(r) ==
    ((r.lon * 2 + r.lat) * 4 + (r.a + 1)) * 4 + (r.b + 1)

\* The tables pd.read_csv can return, rows listed in a canonical order.
Tables ==
    { t \in UNION { [1..n -> RowTypes] : n \in 1..MaxRows } :
        \A k \in 1..(Len(t) - 1) : RowCode(t[k]) <= RowCode(t[k + 1]) }

\* The y_columns lists given on the command line.
ColumnLists == { <<"a">>, <<"a", "b">>, <<"a", "a">> }

HasDuplicates(cols) == \E k, l \in 1..Len(cols) : k # l /\ cols[k] = cols[l]

ColumnSet(cols) == { cols[k] : k \in 1..Len(cols) }

\* -------------------------------------------------------------- partition
SetMin(S) == CHOOSE m \in S : \A n \in S : m <= n

SetMax(S) == CHOOSE m \in S : \A n \in S : m >= n

\* Index, among n equal slices of [lo, hi], of the slice holding v.
CellIndex(v, lo, hi, n) ==
    IF hi = lo THEN 0 ELSE Min(n - 1, ((v - lo) * n) \div (hi - lo))

RECURSIVE SelectPoints(_, _, _)
SelectPoints(pts, cellOf, c) ==
    IF pts = <<>> THEN <<>>
    ELSE LET rest == SelectPoints(Tail(pts), cellOf, c)
         IN  IF cellOf[Head(pts)] = c THEN <<Head(pts)>> \o rest ELSE rest

\* partition(points, width, height): chunks[i][j] is the list of the points
\* that lie in cell (i, j) of the grid over the points' bounding box.
partition(points, width, height) ==
    LET P    == { points[k] : k \in 1..Len(points) }
        lox  == SetMin({ p[1] : p \in P })
        hix  == SetMax({ p[1] : p \in P })
        loy  == SetMin({ p[2] : p \in P })
        hiy  == SetMax({ p[2] : p \in P })
        cellOf == [p \in P |-> <<CellIndex(p[1], lox, hix, width),
                                 CellIndex(p[2], loy, hiy, height)>>]
    IN  [i \in 0..(width - 1) |->
            [j \in 0..(height - 1) |-> SelectPoints(points, cellOf, <<i, j>>)]]

points_geometry(table) == [k \in 1..Len(table) |-> <<table[k].lon, table[k].lat>>]

\* ------------------------------------------------------------ aggregation
\* Variant of NanToZero that lets a missing entry into the sum.
NanKept(v) == v

\* sum(x if not np.isnan(x) else 0 for x in columns[column])
NanToZero(v) == IF v = NaN THEN 0 ELSE v

\* df[(df[lon] == point.x) & (df[lat] == point.y)][column], summed.
MatchedSum(table, point, column) ==
    Sum([k \in 1..Len(table) |->
            IF table[k].lon = point[1] /\ table[k].lat = point[2]
            THEN NanToZero(table[k][column]) ELSE 0])

\* total_v[column] after the loop over the points of one cell.
CellTotal(table, cell, column) ==
    Sum([k \in 1..Len(cell) |-> MatchedSum(table, cell[k], column)])

\* Variant of IsSkipped that lets an empty cell through.
IsSkippedNever(x) == x < 0

\* if x == 0: continue
IsSkipped(x) == x = 0

\* Variant of NextCell with the loops swapped: i runs in the inner loop.
NextCellColumnMajor(i, j, width, height) ==
    IF i + 1 < width THEN <<i + 1, j>>
    ELSE IF j + 1 < height THEN <<0, j + 1>>
    ELSE <<width, 0>>

\* The cell the nested loops visit after (i, j): j runs in the inner loop,
\* and <<width, 0>> is the end of the outer loop.
NextCell(i, j, width, height) ==
    IF j + 1 < height THEN <<i, j + 1>> ELSE <<i + 1, 0>>

\* Variant of AppendTotals that appends a total only when it is not zero.
AppendNonZeroTotals(Ys, table, cell) ==
    [c \in DOMAIN Ys |->
        IF CellTotal(table, cell, c) = 0 THEN Ys[c]
        ELSE Append(Ys[c], CellTotal(table, cell, c))]

\* Y[column].append(total_v[column]) for every column of total_v.
AppendTotals(Ys, table, cell) ==
    [c \in DOMAIN Ys |-> Append(Ys[c], CellTotal(table, cell, c))]

\* ----------------------------------------------------------- the program
VARIABLES
    pc,            \* position of the script
    input_kind,    \* what args.input names: "missing", "file" or "dir"
    y_columns,     \* args.y_columns
    chunk_width,   \* args.chunk_width
    chunk_height,  \* args.chunk_height
    df,            \* the loaded table
    chunks,        \* result of partition
    i, j,          \* indices of the aggregation loops
    X, Y,          \* the samples
    col_idx,       \* position of the loop "for column in Y"
    logged,        \* the metrics lines written with logger.info
    error_logged,  \* whether logger.error was called
    exception,     \* the uncaught exception that ended the run, or "none"
    exit_code,     \* exit status of the process, -1 while it runs
    sX, sY, sOp, sResult  \* arguments and result of a statistics call

vars == <<pc, input_kind, y_columns, chunk_width, chunk_height, df, chunks,
          i, j, X, Y, col_idx, logged, error_logged, exception, exit_code,
          sX, sY, sOp, sResult>>

progVars == <<pc, input_kind, y_columns, chunk_width, chunk_height, df, chunks,
              i, j, X, Y, col_idx, logged, error_logged, exception, exit_code>>

statVars == <<sX, sY, sOp, sResult>>

NoCall == [op |-> "none", weight_func |-> "None", weights |-> None, yreg |-> <<>>]

StatsIdle ==
    /\ sX = <<>>
    /\ sY = <<>>
    /\ sOp = NoCall
    /\ sResult = Special("none")

Init ==
    /\ pc = "start"
    /\ input_kind \in {"missing", "file", "dir"}
    /\ y_columns \in ColumnLists
    /\ chunk_width \in 1..MaxGrid
    /\ chunk_height \in 1..MaxGrid
    /\ df = <<>>
    /\ chunks = <<>>
    /\ i = 0
    /\ j = 0
    /\ X = <<>>
    /\ Y = <<>>
    /\ col_idx = 0
    /\ logged = <<>>
    /\ error_logged = FALSE
    /\ exception = "none"
    /\ exit_code = -1
    /\ StatsIdle

is_file(kind) == kind = "file"

exists(kind) == kind \in {"file", "dir"}

\* if not (input_path.is_file() or input_path.exists())
InputRejected(kind) == ~(is_file(kind) \/ exists(kind))

\* An uncaught exception ends the interpreter with status 1.
Raise(name) ==
    /\ pc' = "crashed"
    /\ exception' = name
    /\ exit_code' = 1

CheckInput ==
    /\ pc = "start"
    /\ IF InputRejected(input_kind)
       THEN /\ error_logged' = TRUE
            /\ exit_code' = 1
            /\ pc' = "exited"
       ELSE /\ pc' = "load"
            /\ UNCHANGED <<error_logged, exit_code>>
    /\ UNCHANGED <<input_kind, y_columns, chunk_width, chunk_height, df, chunks,
                   i, j, X, Y, col_idx, logged, exception>>
    /\ UNCHANGED statVars

\* Lines 111-115: read the table, partition its points, create X and Y.
Load ==
    /\ pc = "load"
    /\ IF ~is_file(input_kind)
       THEN /\ Raise("IsADirectoryError")
            /\ UNCHANGED <<df, chunks, Y>>
       ELSE /\ \E t \in Tables :
                 /\ df' = t
                 /\ chunks' = partition(points_geometry(t), chunk_width, chunk_height)
            /\ Y' = [c \in ColumnSet(y_columns) |-> <<>>]
            /\ pc' = "aggregate"
            /\ UNCHANGED <<exception, exit_code>>
    /\ UNCHANGED <<input_kind, y_columns, chunk_width, chunk_height,
                   i, j, X, col_idx, logged, error_logged>>
    /\ UNCHANGED statVars

\* One iteration of the body of the nested loops, lines 118-129.
AggregateCell ==
    /\ pc = "aggregate"
    /\ i < chunk_width
    /\ LET cell == chunks[i][j]
           x    == Len(cell)
           nxt  == NextCell(i, j, chunk_width, chunk_height)
       IN  IF IsSkipped(x)
           THEN /\ i' = nxt[1]
                /\ j' = nxt[2]
                /\ UNCHANGED <<X, Y, pc, exception, exit_code>>
           ELSE IF HasDuplicates(y_columns)
           THEN \* columns[column] is then a frame, and np.isnan of a column
                \* label raises TypeError
                /\ X' = Append(X, x)
                /\ Raise("TypeError")
                /\ UNCHANGED <<i, j, Y>>
           ELSE /\ X' = Append(X, x)
                /\ Y' = AppendTotals(Y, df, cell)
                /\ i' = nxt[1]
                /\ j' = nxt[2]
                /\ UNCHANGED <<pc, exception, exit_code>>
    /\ UNCHANGED <<input_kind, y_columns, chunk_width, chunk_height, df, chunks,
                   col_idx, logged, error_logged>>
    /\ UNCHANGED statVars

\* Lines 131-135: the loops are over.
EndAggregate ==
    /\ pc = "aggregate"
    /\ i >= chunk_width
    /\ pc' = "fit"
    /\ col_idx' = 1
    /\ UNCHANGED <<input_kind, y_columns, chunk_width, chunk_height, df, chunks,
                   i, j, X, Y, logged, error_logged, exception, exit_code>>
    /\ UNCHANGED statVars

\* Keys of Y in insertion order (no duplicates reach this point).
YKeys == y_columns

\* One iteration of "for column in Y", lines 138-149.
FitColumn ==
    /\ pc = "fit"
    /\ col_idx <= Len(YKeys)
    /\ LET column == YKeys[col_idx]
           y      == Y[column]
           lin    == generate_polynomial_trendline(X, y)
       IN  \E outcome \in CurveFitOutcomes(Len(X)) :
              IF outcome # "converged"
              THEN /\ Raise(outcome)
                   /\ UNCHANGED <<logged, col_idx>>
              ELSE \E offset \in LogOffsets :
                   LET log == generate_curve_fit(X, y, offset)
                   IN  /\ logged' = Append(logged,
                                       [column        |-> column,
                                        p             |-> lin.p_value,
                                        rsquared      |-> lin.r_squared,
                                        log_rsquared  |-> log.r_squared])
                       /\ col_idx' = col_idx + 1
                       /\ UNCHANGED <<pc, exception, exit_code>>
    /\ UNCHANGED <<input_kind, y_columns, chunk_width, chunk_height, df, chunks,
                   i, j, X, Y, error_logged>>
    /\ UNCHANGED statVars

\* Lines 151-152: show the plot and end.
Show ==
    /\ pc = "fit"
    /\ col_idx > Len(YKeys)
    /\ pc' = "exited"
    /\ exit_code' = 0
    /\ UNCHANGED <<input_kind, y_columns, chunk_width, chunk_height, df, chunks,
                   i, j, X, Y, col_idx, logged, error_logged, exception>>
    /\ UNCHANGED statVars

Next ==
    \/ CheckInput
    \/ Load
    \/ AggregateCell
    \/ EndAggregate
    \/ FitColumn
    \/ Show

Spec == Init /\ [][Next]_vars

\* ------------------------------------------- the statistics functions alone
\* Entries of the sequences handed to the statistics functions.
StatVals == {0, 1, 2}

StatSeqs == UNION { [1..n -> StatVals] : n \in 0..MaxLen }

\* A trendline, as the function from x to the value of the fitted curve.
Trendlines == [StatVals -> StatVals]

\* The weights arguments tried: none, the arrays the weight functions give,
\* and uniform weights as long as y.
WeightArgs(x, y) ==
    {None, Arr(Ones(Len(y)))}
        \cup { compute_weights(x, y, f).w :
                 f \in { g \in WeightFuncs : compute_weights(x, y, g).kind = "ok" } }

ProgramIdle ==
    /\ pc = "stats"
    /\ input_kind = "file"
    /\ y_columns = <<"a">>
    /\ chunk_width = 1
    /\ chunk_height = 1
    /\ df = <<>>
    /\ chunks = <<>>
    /\ i = 0
    /\ j = 0
    /\ X = <<>>
    /\ Y = <<>>
    /\ col_idx = 0
    /\ logged = <<>>
    /\ error_logged = FALSE
    /\ exception = "none"
    /\ exit_code = -1

InitStats ==
    /\ ProgramIdle
    /\ sX \in StatSeqs
    /\ sY \in StatSeqs
    /\ sOp = NoCall
    /\ sResult = Special("none")

CallCovariance ==
    /\ sOp = NoCall
    /\ \E wt \in WeightArgs(sX, sY) :
          /\ sOp' = [op |-> "covariance", weight_func |-> "None",
                     weights |-> wt, yreg |-> <<>>]
          /\ sResult' = covariance(sX, sY, wt)
    /\ UNCHANGED <<sX, sY>>
    /\ UNCHANGED progVars

CallCorrelation ==
    /\ sOp = NoCall
    /\ \E wt \in WeightArgs(sX, sY) :
          /\ sOp' = [op |-> "correlation_coefficient", weight_func |-> "None",
                     weights |-> wt, yreg |-> <<>>]
          /\ sResult' = correlation_coefficient(sX, sY, wt)
    /\ UNCHANGED <<sX, sY>>
    /\ UNCHANGED progVars

CallDetermination ==
    /\ sOp = NoCall
    /\ \E f \in WeightFuncs, t \in Trendlines :
          LET yreg == [k \in 1..Len(sX) |-> t[sX[k]]]
          IN  /\ sOp' = [op |-> "coefficient_of_determination", weight_func |-> f,
                         weights |-> None, yreg |-> yreg]
              /\ sResult' = coefficient_of_determination(sX, sY, yreg, 1, f)
    /\ UNCHANGED <<sX, sY>>
    /\ UNCHANGED progVars

NextStats ==
    \/ CallCovariance
    \/ CallCorrelation
    \/ CallDetermination

SpecStats == InitStats /\ [][NextStats]_vars

\* ------------------------------------------------------------- properties
Loaded == df # <<>>

\* The run ended inside the body of the aggregation loop.
MidCellAbort == pc = "crashed" /\ Loaded /\ i < chunk_width

\* Number of cells that precede (i, j) when i is the major index.
Pos == i * chunk_height + j

\* The n-th cell (from 0) when i is the major index.
CellAt(n) == <<n \div chunk_height, n % chunk_height>>

Chunk(c) == chunks[c[1]][c[2]]

\* The non-empty cells among the first n cells, in increasing (i, j) order.
RECURSIVE NonEmptyUpTo(_)
NonEmptyUpTo(n) ==
    IF n = 0 THEN <<>>
    ELSE IF Len(Chunk(CellAt(n - 1))) = 0 THEN NonEmptyUpTo(n - 1)
    ELSE Append(NonEmptyUpTo(n - 1), CellAt(n - 1))

AllCells == (0..(chunk_width - 1)) \X (0..(chunk_height - 1))

PointsOf(c) == { Chunk(c)[k] : k \in 1..Len(Chunk(c)) }

\* The table rows whose point lies in cell c.
RowsIn(c) == { k \in 1..Len(df) : <<df[k].lon, df[k].lat>> \in PointsOf(c) }

RECURSIVE SumOver(_, _)
SumOver(S, column) ==
    IF S = {} THEN 0
    ELSE LET k == CHOOSE m \in S : TRUE
         IN  (IF df[k][column] = NaN THEN 0 ELSE df[k][column])
                 + SumOver(S \ {k}, column)

\* C1: for every table, also one in which several rows share a coordinate
\* pair, the Y value appended for a non-empty cell and a column is the sum
\* of the column over the rows whose point lies in the cell, each row
\* counted once and NaN counted as 0.
C1_YIsSumOfRowsInCell ==
    (Loaded /\ ~MidCellAbort) =>
        LET ne == NonEmptyUpTo(Pos)
        IN  \A c \in DOMAIN Y : \A k \in 1..Len(Y[c]) :
                k <= Len(ne) => Y[c][k] = SumOver(RowsIn(ne[k]), c)

\* C2: an input path that is missing or is not a regular file never gets
\* past the start-up check: the run logs the error and exits with code 1.
C2_NonFileRejected ==
    input_kind # "file" =>
        /\ pc \in {"start", "exited"}
        /\ pc = "exited" => (error_logged /\ exit_code = 1)

\* C3: a failure of the logarithmic curve fit for one column does not end
\* the run while columns remain; the loop goes on with the remaining columns.
C3_CurveFitFailureDoesNotAbort ==
    ~(pc = "crashed" /\ exception = "RuntimeError" /\ col_idx < Len(YKeys))

AllEqual(s) == \A k, l \in 1..Len(s) : s[k] = s[l]

UniformWeights(w) == w.none \/ (w.arr = Ones(Len(sX)))

\* A call whose denominator is zero: correlation_coefficient with all X
\* equal or all Y equal, coefficient_of_determination with all Y equal.
DegenerateCall ==
    /\ Len(sX) = Len(sY)
    /\ Len(sX) >= 1
    /\ \/ /\ sOp.op = "correlation_coefficient"
          /\ UniformWeights(sOp.weights)
          /\ AllEqual(sX) \/ AllEqual(sY)
       \/ /\ sOp.op = "coefficient_of_determination"
          /\ sOp.weight_func = "None"
          /\ AllEqual(sY)

\* C4: with a zero denominator correlation_coefficient and
\* coefficient_of_determination raise an error; they do not return NaN or
\* an infinity.
C4_DegenerateStatisticsRaise ==
    DegenerateCall => IsErr(sResult)

AggregationDone == Loaded /\ i >= chunk_width

\* C5: after aggregation X has one entry per non-empty cell, every entry is
\* at least 1, and each entry is the point count of its cell.
C5_XCountsNonEmptyCells ==
    AggregationDone =>
        /\ Len(X) = Cardinality({ c \in AllCells : Len(Chunk(c)) > 0 })
        /\ \A k \in 1..Len(X) :
              /\ X[k] >= 1
              /\ X[k] = Len(Chunk(NonEmptyUpTo(chunk_width * chunk_height)[k]))

C5_Witness ==
    /\ AggregationDone
    /\ Len(X) >= 2
    /\ \E c \in AllCells : Len(Chunk(c)) = 0
    /\ \E k \in 1..Len(X) : X[k] >= 2

C7_AllNaNCellGivesZero ==
    (Loaded /\ ~MidCellAbort) =>
        LET ne == NonEmptyUpTo(Pos)
        IN  \A c \in DOMAIN Y : \A k \in 1..Len(ne) :
                (\A r \in RowsIn(ne[k]) : df[r][c] = NaN) =>
                    (Len(Y[c]) >= k /\ Y[c][k] = 0)

C7_Witness ==
    /\ Loaded
    /\ pc = "fit"
    /\ "a" \in DOMAIN Y
    /\ Len(Y["a"]) >= 2
    /\ \E k \in 1..Len(Y["a"]) :
          /\ Y["a"][k] = 0
          /\ X[k] >= 2
          /\ \A r \in RowsIn(NonEmptyUpTo(Pos)[k]) : df[r]["a"] = NaN
    /\ \E k \in 1..Len(Y["a"]) : Y["a"][k] > 0

\* The trendline of the call passes through every data point (there is one).
ExactFit ==
    /\ sOp.op = "coefficient_of_determination"
    /\ Len(sX) = Len(sY)
    /\ Len(sX) >= 1
    /\ \A k \in 1..Len(sX) : sOp.yreg[k] = sY[k]

IsOne(r) == r.kind = "num" /\ r.num = r.den /\ r.den # 0

CallWeights ==
    IF sOp.weight_func = "None" THEN Ones(Len(sX))
    ELSE [k \in 1..Len(sX) |-> ApplyWeight(sOp.weight_func, sX[k], sY[k])]

CallTss ==
    Sum([k \in 1..Len(sX) |->
            CallWeights[k] * (Sum(CallWeights) * sY[k] - Dot(CallWeights, sY))
                           * (Sum(CallWeights) * sY[k] - Dot(CallWeights, sY))])

C9_SamplesInRowMajorOrder ==
    (Loaded /\ ~MidCellAbort) =>
        LET ne == NonEmptyUpTo(Pos)
        IN  /\ X = [k \in 1..Len(ne) |-> Len(Chunk(ne[k]))]
            /\ \A c \in DOMAIN Y :
                  Y[c] = [k \in 1..Len(ne) |-> CellTotal(df, Chunk(ne[k]), c)]

C9_Witness ==
    /\ pc = "aggregate"
    /\ chunk_width = 2
    /\ chunk_height = 2
    /\ i = 1
    /\ j = 1
    /\ Len(X) = 3
    /\ X[1] # X[2]

====
